---- MODULE Spec2Model ----
(***************************************************************************)
(* Verification model of psychopath's partitioning helpers                 *)
(* (src/algorithm.rs), the BVH4 traversal code (sub_crates/bvh_order) and  *)
(* the guarded numeric entry points of the surface closures and of the     *)
(* trifloat encoder.                                                       *)
(*                                                                         *)
(* Raw pointers are modelled as byte addresses: a pointer to element i of  *)
(* a slice at address `start` with element size s is start + i*s, and      *)
(* `p.offset(k)` moves it by k*s.  Slices are 1-indexed sequences, so the  *)
(* element behind pointer p is slc[(p - start) \div s + 1].  Element types *)
(* are taken to have a positive size.                                      *)
(***************************************************************************)
EXTENDS Integers, Sequences, FiniteSets, TLC

(* ------------------------------ bounds --------------------------------- *)
\* Longest slice handed to partition.
MaxLen == 4
\* Longest slice handed to partition_pair (each of the two).
MaxPairLen == 3
\* Largest value the predicate may write into an element it is shown.
MaxVal == 1

\* Sizes in bytes of the element types T, A and B.
ElemSizes == {1, 4}
\* Address at which the (first) slice lives.
StartAddrs == {24}
\* Address at which the second slice of partition_pair lives.
Base2Addrs == {200}

Vals == 0..MaxVal

VARIABLES
    fn,       \* which function is running
    pc,       \* position inside the running function
    start,    \* `start`: address of the first element of slc / slc1
    ret,      \* returned value (-1 while none)
    calls,    \* log of the predicate's evaluations, in order
    \* partition
    slc, sizeT, a, b,
    \* partition_pair
    slc1, slc2, sizeA, sizeB, base2, a1, a2, b1, b2,
    \* calc_traversal_code
    splits, codes,
    \* guarded numeric entry points
    build, op, arg, outcome,
    \* TriangleMesh::intersect_rays
    accel_rays, isects, rs, ri, tri_i, tested, visits,
    \* merge_slices_append
    slice1, slice2, vec_out, vec_in, mi

algoVars == <<start, ret, calls, slc, sizeT, a, b,
              slc1, slc2, sizeA, sizeB, base2, a1, a2, b1, b2>>
partVars == <<slc, sizeT, a, b>>
pairVars == <<slc1, slc2, sizeA, sizeB, base2, a1, a2, b1, b2>>
codeVars == <<splits, codes>>
numVars  == <<build, op, arg, outcome>>
meshVars == <<accel_rays, isects, rs, ri, tri_i, tested, visits>>
mergeVars == <<slice1, slice2, vec_out, vec_in, mi>>
extVars == <<meshVars, mergeVars>>
vars == <<fn, pc, algoVars, codeVars, numVars, extVars>>

(* ------------------------- idle values --------------------------------- *)
PartIdle == slc = <<>> /\ sizeT = 1 /\ a = 0 /\ b = 0
PairIdle ==
    /\ slc1 = <<>> /\ slc2 = <<>> /\ sizeA = 1 /\ sizeB = 1 /\ base2 = 0
    /\ a1 = 0 /\ a2 = 0 /\ b1 = 0 /\ b2 = 0
AlgoIdle == start = 0 /\ ret = -1 /\ calls = <<>> /\ PartIdle /\ PairIdle
CodeIdle == splits = <<>> /\ codes = <<>>
NumIdle  == build = "debug" /\ op = "none" /\ arg = <<>> /\ outcome = [status |-> "none"]
MeshIdle ==
    /\ accel_rays = <<>> /\ isects = <<>> /\ rs = <<>> /\ ri = 0 /\ tri_i = 0
    /\ tested = <<>> /\ visits = 0
MergeIdle ==
    slice1 = <<>> /\ slice2 = <<>> /\ vec_out = <<>> /\ vec_in = <<>> /\ mi = 0
ExtIdle == MeshIdle /\ MergeIdle

(* --------------------------- elements ---------------------------------- *)
\* A fresh slice of n elements; id is the position the element starts at
\* (0-based), val is its content, which the predicate may overwrite.
FreshSlice(n) == [i \in 1..n |-> [id |-> i - 1, val |-> 0]]

\* Mutation: the swap as a copy of slot j over slot i.
SwapSlotsCopy(s, i, j) == [s EXCEPT ![i] = s[j]]

\* std::ptr::swap on two slots of one slice.
SwapSlots(s, i, j) == [s EXCEPT ![i] = s[j], ![j] = s[i]]

\* Whether address p points at an element of the n-element slice at base
\* with element size sz; a dereference elsewhere is undefined behaviour.
InSlice(p, base, sz, n) ==
    /\ p >= base
    /\ p < base + n * sz
    /\ (p - base) % sz = 0

\* The 1-based slot behind address p.
SlotOf(p, base, sz) == ((p - base) \div sz) + 1

(* ============================ partition ================================ *)
\* Mutation: the byte distance returned without the division by size_of.
PartIndexBytes(p) == p - start

\* ((a as usize) - start) / size_of::<T>()
PartIndex(p) == (p - start) \div sizeT

\* Mutation: the end pointer computed len bytes, not len elements, ahead.
PartEnterByteLen ==
    /\ fn = "partition" /\ pc = "call"
    /\ a' = start
    /\ b' = start + Len(slc)
    /\ pc' = "fwd"
    /\ UNCHANGED <<fn, start, ret, calls, slc, sizeT, pairVars, codeVars, numVars, extVars>>

\* let mut a = slc.as_mut_ptr(); let mut b = a.offset(len); let start = a
PartEnter ==
    /\ fn = "partition" /\ pc = "call"
    /\ a' = start
    /\ b' = start + Len(slc) * sizeT
    /\ pc' = "fwd"
    /\ UNCHANGED <<fn, start, ret, calls, slc, sizeT, pairVars, codeVars, numVars, extVars>>

\* forward scan: if a == b { return index of a }
PartFwdReturn ==
    /\ fn = "partition" /\ pc = "fwd"
    /\ a = b
    /\ ret' = PartIndex(a)
    /\ pc' = "done"
    /\ UNCHANGED <<fn, start, calls, partVars, pairVars, codeVars, numVars, extVars>>

\* forward scan: if !pred(&mut *a) { break } a = a.offset(1)
PartFwdTest ==
    /\ fn = "partition" /\ pc = "fwd"
    /\ a # b
    /\ IF ~InSlice(a, start, sizeT, Len(slc))
       THEN /\ pc' = "ub"
            /\ UNCHANGED <<calls, slc, a>>
       ELSE \E r \in BOOLEAN, v \in Vals :
              LET i == SlotOf(a, start, sizeT) IN
              /\ calls' = Append(calls, [e |-> slc[i].id, res |-> r, scan |-> "fwd"])
              /\ slc' = [slc EXCEPT ![i].val = v]
              /\ IF r THEN a' = a + sizeT /\ pc' = "fwd"
                      ELSE a' = a /\ pc' = "bwd"
    /\ UNCHANGED <<fn, start, ret, sizeT, b, pairVars, codeVars, numVars, extVars>>

\* backward scan: b = b.offset(-1); if a == b { return index of a }
PartBwdReturn ==
    /\ fn = "partition" /\ pc = "bwd"
    /\ b - sizeT = a
    /\ b' = b - sizeT
    /\ ret' = PartIndex(a)
    /\ pc' = "done"
    /\ UNCHANGED <<fn, start, calls, slc, sizeT, a, pairVars, codeVars, numVars, extVars>>

\* backward scan: b = b.offset(-1); ...; if pred(&mut *b) { break }
PartBwdTest ==
    /\ fn = "partition" /\ pc = "bwd"
    /\ b - sizeT # a
    /\ b' = b - sizeT
    /\ IF ~InSlice(b', start, sizeT, Len(slc))
       THEN /\ pc' = "ub"
            /\ UNCHANGED <<calls, slc>>
       ELSE \E r \in BOOLEAN, v \in Vals :
              LET i == SlotOf(b', start, sizeT) IN
              /\ calls' = Append(calls, [e |-> slc[i].id, res |-> r, scan |-> "bwd"])
              /\ slc' = [slc EXCEPT ![i].val = v]
              /\ pc' = IF r THEN "swap" ELSE "bwd"
    /\ UNCHANGED <<fn, start, ret, sizeT, a, pairVars, codeVars, numVars, extVars>>

\* Mutation: the swap without the advance of a that follows it.
PartSwapNoAdvance ==
    /\ fn = "partition" /\ pc = "swap"
    /\ slc' = SwapSlots(slc, SlotOf(a, start, sizeT), SlotOf(b, start, sizeT))
    /\ pc' = "fwd"
    /\ UNCHANGED <<fn, start, ret, calls, sizeT, a, b, pairVars, codeVars, numVars, extVars>>

\* std::ptr::swap(a, b); a = a.offset(1);
PartSwap ==
    /\ fn = "partition" /\ pc = "swap"
    /\ slc' = SwapSlots(slc, SlotOf(a, start, sizeT), SlotOf(b, start, sizeT))
    /\ a' = a + sizeT
    /\ pc' = "fwd"
    /\ UNCHANGED <<fn, start, ret, calls, sizeT, b, pairVars, codeVars, numVars, extVars>>

(* ========================== partition_pair ============================= *)
\* Mutation: the byte distance divided by the size of B instead of A.
PairIndexSizeB(p) == (p - start) \div sizeB

\* ((p as usize) - start) / size_of::<A>()
PairIndex(p) == (p - start) \div sizeA

\* Mutation: the length assertion left out.
PairEnterNoAssert ==
    /\ fn = "partition_pair" /\ pc = "call"
    /\ a1' = start
    /\ a2' = base2
    /\ b1' = start + Len(slc1) * sizeA
    /\ b2' = base2 + Len(slc2) * sizeB
    /\ pc' = "fwd"
    /\ UNCHANGED <<fn, start, ret, calls, partVars, slc1, slc2, sizeA, sizeB,
                   base2, codeVars, numVars, extVars>>

\* assert!(slc1.len() == slc2.len()); then the four pointers and start.
PairEnter ==
    /\ fn = "partition_pair" /\ pc = "call"
    /\ IF Len(slc1) # Len(slc2)
       THEN /\ pc' = "panic"
            /\ UNCHANGED <<a1, a2, b1, b2>>
       ELSE /\ a1' = start
            /\ a2' = base2
            /\ b1' = start + Len(slc1) * sizeA
            /\ b2' = base2 + Len(slc2) * sizeB
            /\ pc' = "fwd"
    /\ UNCHANGED <<fn, start, ret, calls, partVars, slc1, slc2, sizeA, sizeB,
                   base2, codeVars, numVars, extVars>>

\* forward scan: if a1 == b1 { return index of a1 }
PairFwdReturn ==
    /\ fn = "partition_pair" /\ pc = "fwd"
    /\ a1 = b1
    /\ ret' = PairIndex(a1)
    /\ pc' = "done"
    /\ UNCHANGED <<fn, start, calls, partVars, pairVars, codeVars, numVars, extVars>>

\* Mutation: the forward scan advances a1 but not a2.
PairFwdTestStaleA2 ==
    /\ fn = "partition_pair" /\ pc = "fwd"
    /\ a1 # b1
    /\ IF ~(InSlice(a1, start, sizeA, Len(slc1)) /\ InSlice(a2, base2, sizeB, Len(slc2)))
       THEN /\ pc' = "ub"
            /\ UNCHANGED <<calls, slc1, slc2, a1, a2>>
       ELSE \E r \in BOOLEAN, v \in Vals, w \in Vals :
              LET i == SlotOf(a1, start, sizeA)
                  j == SlotOf(a2, base2, sizeB) IN
              /\ calls' = Append(calls, [idx |-> (a1 - start) \div sizeA, e1 |-> slc1[i].id,
                                         e2 |-> slc2[j].id, res |-> r, scan |-> "fwd"])
              /\ slc1' = [slc1 EXCEPT ![i].val = v]
              /\ slc2' = [slc2 EXCEPT ![j].val = w]
              /\ a2' = a2
              /\ IF r THEN a1' = a1 + sizeA /\ pc' = "fwd"
                      ELSE a1' = a1 /\ pc' = "bwd"
    /\ UNCHANGED <<fn, start, ret, partVars, sizeA, sizeB, base2, b1, b2,
                   codeVars, numVars, extVars>>

\* forward scan: if !pred(index of a1, &mut *a1, &mut *a2) { break }
\*               a1 = a1.offset(1); a2 = a2.offset(1);
PairFwdTest ==
    /\ fn = "partition_pair" /\ pc = "fwd"
    /\ a1 # b1
    /\ IF ~(InSlice(a1, start, sizeA, Len(slc1)) /\ InSlice(a2, base2, sizeB, Len(slc2)))
       THEN /\ pc' = "ub"
            /\ UNCHANGED <<calls, slc1, slc2, a1, a2>>
       ELSE \E r \in BOOLEAN, v \in Vals, w \in Vals :
              LET i == SlotOf(a1, start, sizeA)
                  j == SlotOf(a2, base2, sizeB) IN
              /\ calls' = Append(calls, [idx |-> PairIndex(a1), e1 |-> slc1[i].id,
                                         e2 |-> slc2[j].id, res |-> r, scan |-> "fwd"])
              /\ slc1' = [slc1 EXCEPT ![i].val = v]
              /\ slc2' = [slc2 EXCEPT ![j].val = w]
              /\ IF r THEN a1' = a1 + sizeA /\ a2' = a2 + sizeB /\ pc' = "fwd"
                      ELSE a1' = a1 /\ a2' = a2 /\ pc' = "bwd"
    /\ UNCHANGED <<fn, start, ret, partVars, sizeA, sizeB, base2, b1, b2,
                   codeVars, numVars, extVars>>

\* backward scan: b1 = b1.offset(-1); b2 = b2.offset(-1);
\*                if a1 == b1 { return index of a1 }
PairBwdReturn ==
    /\ fn = "partition_pair" /\ pc = "bwd"
    /\ b1 - sizeA = a1
    /\ b1' = b1 - sizeA
    /\ b2' = b2 - sizeB
    /\ ret' = PairIndex(a1)
    /\ pc' = "done"
    /\ UNCHANGED <<fn, start, calls, partVars, slc1, slc2, sizeA, sizeB, base2,
                   a1, a2, codeVars, numVars, extVars>>

\* backward scan: b1 = b1.offset(-1); b2 = b2.offset(-1); ...;
\*                if pred(index of b1, &mut *b1, &mut *b2) { break }
PairBwdTest ==
    /\ fn = "partition_pair" /\ pc = "bwd"
    /\ b1 - sizeA # a1
    /\ b1' = b1 - sizeA
    /\ b2' = b2 - sizeB
    /\ IF ~(InSlice(b1', start, sizeA, Len(slc1)) /\ InSlice(b2', base2, sizeB, Len(slc2)))
       THEN /\ pc' = "ub"
            /\ UNCHANGED <<calls, slc1, slc2>>
       ELSE \E r \in BOOLEAN, v \in Vals, w \in Vals :
              LET i == SlotOf(b1', start, sizeA)
                  j == SlotOf(b2', base2, sizeB) IN
              /\ calls' = Append(calls, [idx |-> PairIndex(b1'), e1 |-> slc1[i].id,
                                         e2 |-> slc2[j].id, res |-> r, scan |-> "bwd"])
              /\ slc1' = [slc1 EXCEPT ![i].val = v]
              /\ slc2' = [slc2 EXCEPT ![j].val = w]
              /\ pc' = IF r THEN "swap" ELSE "bwd"
    /\ UNCHANGED <<fn, start, ret, partVars, sizeA, sizeB, base2, a1, a2,
                   codeVars, numVars, extVars>>

\* Mutation: only the first slice's elements are swapped.
PairSwapFirstOnly ==
    /\ fn = "partition_pair" /\ pc = "swap"
    /\ slc1' = SwapSlots(slc1, SlotOf(a1, start, sizeA), SlotOf(b1, start, sizeA))
    /\ a1' = a1 + sizeA
    /\ a2' = a2 + sizeB
    /\ pc' = "fwd"
    /\ UNCHANGED <<fn, start, ret, calls, partVars, slc2, sizeA, sizeB, base2, b1, b2,
                   codeVars, numVars, extVars>>

\* Mutation: the swap without the advance of a1 and a2 that follows it.
PairSwapNoAdvance ==
    /\ fn = "partition_pair" /\ pc = "swap"
    /\ slc1' = SwapSlots(slc1, SlotOf(a1, start, sizeA), SlotOf(b1, start, sizeA))
    /\ slc2' = SwapSlots(slc2, SlotOf(a2, base2, sizeB), SlotOf(b2, base2, sizeB))
    /\ pc' = "fwd"
    /\ UNCHANGED <<fn, start, ret, calls, partVars, sizeA, sizeB, base2, a1, a2, b1, b2,
                   codeVars, numVars, extVars>>

\* std::ptr::swap(a1, b1); std::ptr::swap(a2, b2);
\* a1 = a1.offset(1); a2 = a2.offset(1);
PairSwap ==
    /\ fn = "partition_pair" /\ pc = "swap"
    /\ slc1' = SwapSlots(slc1, SlotOf(a1, start, sizeA), SlotOf(b1, start, sizeA))
    /\ slc2' = SwapSlots(slc2, SlotOf(a2, base2, sizeB), SlotOf(b2, base2, sizeB))
    /\ a1' = a1 + sizeA
    /\ a2' = a2 + sizeB
    /\ pc' = "fwd"
    /\ UNCHANGED <<fn, start, ret, calls, partVars, sizeA, sizeB, base2, b1, b2,
                   codeVars, numVars, extVars>>

(* ------------------- specification of algorithm.rs --------------------- *)
\* A call of partition on any slice of up to MaxLen elements, or a call of
\* partition_pair on any two slices of up to MaxPairLen elements each.
InitPartition ==
    /\ fn = "partition" /\ pc = "call"
    /\ ret = -1 /\ calls = <<>>
    /\ start \in StartAddrs
    /\ sizeT \in ElemSizes
    /\ \E n \in 0..MaxLen : slc = FreshSlice(n)
    /\ a = 0 /\ b = 0
    /\ PairIdle

InitPair ==
    /\ fn = "partition_pair" /\ pc = "call"
    /\ ret = -1 /\ calls = <<>>
    /\ start \in StartAddrs
    /\ base2 \in Base2Addrs
    /\ sizeA \in ElemSizes
    /\ sizeB \in ElemSizes
    /\ \E n \in 0..MaxPairLen : slc1 = FreshSlice(n)
    /\ \E m \in 0..MaxPairLen : slc2 = FreshSlice(m)
    /\ a1 = 0 /\ a2 = 0 /\ b1 = 0 /\ b2 = 0
    /\ PartIdle

InitAlgo == (InitPartition \/ InitPair) /\ CodeIdle /\ NumIdle /\ ExtIdle

NextPartition ==
    \/ PartEnter \/ PartFwdReturn \/ PartFwdTest
    \/ PartBwdReturn \/ PartBwdTest \/ PartSwap

NextPair ==
    \/ PairEnter \/ PairFwdReturn \/ PairFwdTest
    \/ PairBwdReturn \/ PairBwdTest \/ PairSwap

NextAlgo == NextPartition \/ NextPair

SpecAlgo == InitAlgo /\ [][NextAlgo]_vars

InitPartitionOnly == InitPartition /\ CodeIdle /\ NumIdle /\ ExtIdle

\* partition alone; a running call always takes its next step.
SpecPartitionFair ==
    /\ InitPartitionOnly
    /\ [][NextPartition]_vars
    /\ WF_vars(NextPartition)

(* ====================== calc_traversal_code ============================ *)
\* The values representing each axis are x = 0, y = 1, and z = 2.
MaxAxis == 2
Axes == 0..MaxAxis

\* u8 arithmetic
U8(x) == x % 256

\* enum SplitAxes, as <<variant, axes...>>
SplitAxes ==
    {<<"Full", t, l, r>> : t \in Axes, l \in Axes, r \in Axes}
    \cup {<<"Left", t, l>> : t \in Axes, l \in Axes}
    \cup {<<"Right", t, r>> : t \in Axes, r \in Axes}
    \cup {<<"TopOnly", t>> : t \in Axes}

\* Mutation: the Right topology given the offset of the Left topology.
CalcTraversalCodeRightAsLeft(split) ==
    CASE split[1] = "Full"    -> U8(U8(split[2] + U8(split[3] * 3)) + U8(split[4] * 9))
      [] split[1] = "Left"    -> U8(U8(split[2] + U8(split[3] * 3)) + 27)
      [] split[1] = "Right"   -> U8(U8(split[2] + U8(split[3] * 3)) + 27)
      [] split[1] = "TopOnly" -> U8(split[2] + U8(27 + 9 + 9))

\* pub fn calc_traversal_code(split: SplitAxes) -> u8
CalcTraversalCode(split) ==
    CASE split[1] = "Full"    -> U8(U8(split[2] + U8(split[3] * 3)) + U8(split[4] * 9))
      [] split[1] = "Left"    -> U8(U8(split[2] + U8(split[3] * 3)) + 27)
      [] split[1] = "Right"   -> U8(U8(split[2] + U8(split[3] * 3)) + U8(27 + 9))
      [] split[1] = "TopOnly" -> U8(split[2] + U8(27 + 9 + 9))

\* One call of calc_traversal_code, on the first or the second of two inputs.
CalcTraversalCodeCall ==
    /\ fn = "calc_traversal_code"
    /\ \E i \in 1..2 :
         /\ codes[i] = -1
         /\ codes' = [codes EXCEPT ![i] = CalcTraversalCode(splits[i])]
    /\ pc' = IF \A i \in 1..2 : codes'[i] # -1 THEN "done" ELSE "call"
    /\ UNCHANGED <<fn, splits, algoVars, numVars, extVars>>

InitCode ==
    /\ fn = "calc_traversal_code" /\ pc = "call"
    /\ splits \in SplitAxes \X SplitAxes
    /\ codes = <<-1, -1>>
    /\ AlgoIdle /\ NumIdle /\ ExtIdle

NextCode == CalcTraversalCodeCall

SpecCode == InitCode /\ [][NextCode]_vars

(* ================ guarded numeric entry points, f32 ==================== *)
\* f32 values are fixed-point numbers [nan |-> FALSE, q |-> n], n counting
\* units of 0.0001, or NaN.  A comparison with NaN is false.
Unit == 100 * 100
Num(n) == [nan |-> FALSE, q |-> n]
NaN == [nan |-> TRUE, q |-> 0]
Fge(x, y) == ~x.nan /\ ~y.nan /\ x.q >= y.q
Fle(x, y) == ~x.nan /\ ~y.nan /\ x.q <= y.q
Flt(x, y) == ~x.nan /\ ~y.nan /\ x.q < y.q
\* f32::max and f32::min return the other operand when one is NaN.
Fmax(x, y) == IF x.nan THEN y ELSE IF y.nan THEN x ELSE IF x.q >= y.q THEN x ELSE y
Fmin(x, y) == IF x.nan THEN y ELSE IF y.nan THEN x ELSE IF x.q <= y.q THEN x ELSE y

\* Number of half-unit steps the sampled cosines and factors reach on each
\* side of zero (3: -1.5 .. 1.5).
MaxHalfSteps == 3
HalfGrid == {Num(k * (Unit \div 2)) : k \in (0 - MaxHalfSteps)..MaxHalfSteps} \cup {NaN}
RoughnessGrid == {Num(n) : n \in {0 - Unit, 0, 1, 2, 3, Unit \div 2, Unit - 1, Unit, 2 * Unit}}
TailGrid == {Num(n) : n \in {0, 1, Unit - 1, Unit, Unit + 1, 2 * Unit}}

Panicked == [status |-> "panicked"]

(* ------------------------- GTRClosure::new ----------------------------- *)
\* debug_assert!(self.fresnel >= 0.0 && self.fresnel <= 1.0): whether the
\* guard lets the call go on.
GTRFresnelGuard(bld, fresnel) ==
    bld = "debug" => (Fge(fresnel, Num(0)) /\ Fle(fresnel, Num(Unit)))

\* GTRClosure::validate after its guard: the clamps of roughness and
\* tail_shape.  The normalization factor is kept as the term it is computed
\* from.
GTRValidate(c) ==
    LET r1 == Fmin(Fmax(c.roughness, Num(0)), Num(Unit - 1))
        t1 == Fmax(Num(1), c.tail_shape)
        r2 == IF r1.q * 4096 < Unit THEN Num(0) ELSE r1
        t2 == IF t1.q - Unit < 1 /\ Unit - t1.q < 1 THEN Num(Unit + 1) ELSE t1
    IN [fresnel |-> c.fresnel, roughness |-> r2, tail_shape |-> t2,
        normalization_factor |-> <<"normalization", r2.q, t2.q>>]

\* GTRClosure::new(col, roughness, tail_shape, fresnel)
GTRNew ==
    /\ op = "GTRClosure::new" /\ pc = "call"
    /\ IF GTRFresnelGuard(build, arg.fresnel)
       THEN /\ outcome' = [status |-> "returned", closure |-> GTRValidate(arg)]
            /\ pc' = "done"
       ELSE /\ outcome' = Panicked
            /\ pc' = "panic"
    /\ UNCHANGED <<fn, build, op, arg, algoVars, codeVars, extVars>>

(* ----------------- estimate_eval_over_solid_angle ---------------------- *)
\* EmitClosure: unimplemented!()
EmitEstimate(x) == Panicked

\* sphere_lambert(nlcos, rcos) inside LambertClosure's implementation.  The
\* angle comparisons are made on the cosines: with nl = acos(nlcos) and
\* r = acos(rcos) in [0, pi/2],
\*   nl < pi/2 - r  iff  nlcos > 0 and nlcos^2 > 1 - rcos^2,
\*   nl < pi/2      iff  nlcos > 0,
\*   nl < pi/2 + r  iff  nlcos > 0, or nlcos^2 < 1 - rcos^2.
\* ysin = rcos / nlsin is 0.0 / 0.0 = NaN when nlcos = 1 and rcos = 0, and
\* g and h are then NaN.  sign is the sign of the value returned (0 or 1;
\* the irradiance formulas g and h enter are taken as positive), nan whether
\* it is NaN.
SphereLambert(nlcos, rcos) ==
    IF ~(Fge(nlcos, Num(0 - Unit)) /\ Fle(nlcos, Num(Unit))) THEN Panicked
    ELSE IF ~(Fge(rcos, Num(0)) /\ Fle(rcos, Num(Unit))) THEN Panicked
    ELSE
      LET n == nlcos.q
          c == rcos.q
          rsin2 == Unit * Unit - c * c
          ghNaN == (n * n = Unit * Unit /\ c = 0)
      IN IF n > 0 /\ n * n > rsin2
           THEN [status |-> "returned", branch |-> "nlcos*rsin2",
                 sign |-> IF rsin2 = 0 THEN 0 ELSE 1, nan |-> FALSE]
         ELSE IF n > 0
           THEN [status |-> "returned", branch |-> "nlcos*rsin2+g-h",
                 sign |-> 1, nan |-> ghNaN]
         ELSE IF n * n < rsin2
           THEN [status |-> "returned", branch |-> "(g+h)/pi",
                 sign |-> 1, nan |-> FALSE]
         ELSE [status |-> "returned", branch |-> "0.0", sign |-> 0, nan |-> FALSE]

\* Mutation: LambertClosure's cos_theta guard written with debug_assert!.
LambertEstimateDebugGuard(bld, x) ==
    IF bld = "debug" /\ ~(Fge(x.cos_theta, Num(0 - Unit)) /\ Fle(x.cos_theta, Num(Unit)))
    THEN Panicked
    ELSE IF Flt(x.cos_theta, Num(0))
    THEN [status |-> "returned", branch |-> "1.0", sign |-> 1, nan |-> FALSE]
    ELSE SphereLambert(Fmin(Fmax(x.dot, Num(0 - Unit)), Num(Unit)), x.cos_theta)

\* LambertClosure: assert!(cos_theta >= -1.0 && cos_theta <= 1.0), then 1.0
\* for a negative cos_theta and sphere_lambert(cos_nv, cos_theta) otherwise,
\* cos_nv = dot(nn, v).max(-1.0).min(1.0).
LambertEstimate(bld, x) ==
    IF ~(Fge(x.cos_theta, Num(0 - Unit)) /\ Fle(x.cos_theta, Num(Unit)))
    THEN Panicked
    ELSE IF Flt(x.cos_theta, Num(0))
    THEN [status |-> "returned", branch |-> "1.0", sign |-> 1, nan |-> FALSE]
    ELSE SphereLambert(Fmin(Fmax(x.dot, Num(0 - Unit)), Num(Unit)), x.cos_theta)

\* GTRClosure: assert!(cos_theta >= -1.0); assert!(cos_theta <= 1.0); then
\* dist(nh, ..) * min(1, 1 - cos_theta) * INV_PI with nh the dot product
\* x.dot clamped to [-1, 1]; dist is 0.0 for nh <= 0.0 and the positive
\* normalization_factor / (..).powf(tail_shape) otherwise.
GTREstimate(bld, x) ==
    IF ~Fge(x.cos_theta, Num(0 - Unit)) THEN Panicked
    ELSE IF ~Fle(x.cos_theta, Num(Unit)) THEN Panicked
    ELSE
      LET nh == IF x.dot.nan THEN NaN ELSE Fmin(Fmax(x.dot, Num(0 - Unit)), Num(Unit))
      IN IF Fle(nh, Num(0))
           THEN [status |-> "returned", branch |-> "0.0", sign |-> 0, nan |-> FALSE]
         ELSE [status |-> "returned", branch |-> "dist*min(1,1-cos_theta)/pi",
               sign |-> IF x.cos_theta.q = Unit THEN 0 ELSE 1, nan |-> nh.nan]

\* SurfaceClosure::estimate_eval_over_solid_angle through the closure union
EstimateEval(bld, x) ==
    CASE x.kind = "EmitClosure"    -> EmitEstimate(x)
      [] x.kind = "LambertClosure" -> LambertEstimate(bld, x)
      [] x.kind = "GTRClosure"     -> GTREstimate(bld, x)

EstimateEvalCall ==
    /\ op = "estimate_eval_over_solid_angle" /\ pc = "call"
    /\ outcome' = EstimateEval(build, arg)
    /\ pc' = IF outcome'.status = "panicked" THEN "panic" ELSE "done"
    /\ UNCHANGED <<fn, build, op, arg, algoVars, codeVars, extVars>>

(* ---------------------- trifloat::unsigned32 --------------------------- *)
\* An f32 is a record [cls, neg, m, e]: class "num" stands for m * 2^e with
\* a 24-bit significand (2^23 <= m < 2^24, or m = 0 for a zero, which keeps
\* its sign), classes "inf" and "nan" carry m = 0.  Subnormal values are
\* outside the model.
RECURSIVE Pow2(_)
Pow2(n) == IF n <= 0 THEN 1 ELSE 2 * Pow2(n - 1)

Two23 == Pow2(23)
Two24 == Pow2(24)

RECURSIVE NormSig(_, _)
NormSig(m, e) ==
    IF m >= Two24 THEN NormSig(m \div 2, e + 1)
    ELSE IF m < Two23 THEN NormSig(2 * m, e - 1)
    ELSE [m |-> m, e |-> e]

F32Zero == [cls |-> "num", neg |-> FALSE, m |-> 0, e |-> 0]
F32NegZero == [cls |-> "num", neg |-> TRUE, m |-> 0, e |-> 0]
F32Inf == [cls |-> "inf", neg |-> FALSE, m |-> 0, e |-> 0]
F32NaN == [cls |-> "nan", neg |-> FALSE, m |-> 0, e |-> 0]

\* The f32 of value m * 2^e, for 0 <= m <= 2^24 (every such value is exact).
F32(m, e) ==
    IF m = 0 THEN F32Zero
    ELSE LET n == NormSig(m, e)
         IN  [cls |-> "num", neg |-> FALSE, m |-> n.m, e |-> n.e]

F32Neg(f) == [f EXCEPT !.neg = ~f.neg]

F32IsZero(f) == f.cls = "num" /\ f.m = 0

\* p < q on magnitudes of two "num" values.
MagLt(p, q) ==
    /\ q.m # 0
    /\ \/ p.m = 0
       \/ p.e < q.e
       \/ p.e = q.e /\ p.m < q.m

\* p < q and p <= q as f32 compares them: false when either side is NaN,
\* and the two zeros equal.
F32Lt(p, q) ==
    /\ p.cls # "nan" /\ q.cls # "nan"
    /\ ~(F32IsZero(p) /\ F32IsZero(q))
    /\ IF p.neg # q.neg THEN p.neg
       ELSE IF p.neg
            THEN \/ p.cls = "inf" /\ q.cls = "num"
                 \/ p.cls = "num" /\ q.cls = "num" /\ MagLt(q, p)
            ELSE \/ p.cls = "num" /\ q.cls = "inf"
                 \/ p.cls = "num" /\ q.cls = "num" /\ MagLt(p, q)

F32Le(p, q) == p.cls # "nan" /\ q.cls # "nan" /\ ~F32Lt(q, p)

\* f32::max and f32::min: a NaN operand is ignored.
F32Max(p, q) ==
    IF p.cls = "nan" THEN q
    ELSE IF q.cls = "nan" THEN p
    ELSE IF F32Lt(p, q) THEN q ELSE p

F32Min(p, q) ==
    IF p.cls = "nan" THEN q
    ELSE IF q.cls = "nan" THEN p
    ELSE IF F32Lt(q, p) THEN q ELSE p

\* p * q where q is a power of two: the product is exact.
F32MulPow2(p, q) ==
    IF p.cls = "num" /\ p.m # 0
    THEN [p EXCEPT !.e = p.e + q.e + 23]
    ELSE p

\* M / 2^k rounded to the nearest integer, a tie going to the even one.
RoundShift(M, k) ==
    IF k = 0 THEN M
    ELSE LET f == M \div Pow2(k)
             r == M % Pow2(k)
             half == Pow2(k - 1)
         IN  IF r > half \/ (r = half /\ f % 2 = 1) THEN f + 1 ELSE f

\* t + 0.5 for a non-negative t, rounded to f32 (nearest, ties to even).
F32AddHalf(t) ==
    IF t.cls # "num" THEN t
    ELSE IF t.m = 0 THEN F32(1, 0 - 1)
    ELSE IF t.e >= 1 THEN t
    ELSE IF t.e = 0 THEN F32(RoundShift(2 * t.m + 1, 1), 0)
    ELSE IF t.e >= 0 - 24
         THEN LET M == t.m + Pow2(0 - 1 - t.e)
              IN  IF M < Two24 THEN F32(M, t.e)
                  ELSE F32(RoundShift(M, 1), t.e + 1)
    ELSE IF t.e >= 0 - 49
         THEN F32(Two23 + RoundShift(t.m, 0 - 24 - t.e), 0 - 24)
    ELSE F32(1, 0 - 1)

\* `as u32` on a float below 2^24: truncation, with NaN and negative
\* values going to 0.
F32AsU32(f) ==
    IF f.cls # "num" \/ f.neg \/ f.m = 0 THEN 0
    ELSE IF f.e >= 0 THEN f.m * Pow2(f.e)
    ELSE IF f.e < 0 - 24 THEN 0
    ELSE f.m \div Pow2(0 - f.e)

\* The two helpers of the crate root that encode and decode call:
\* fiddle_log2 reads the float's exponent field, fiddle_exp2 builds the
\* float 2^n.
FiddleLog2(f) ==
    IF f.cls # "num" THEN 128
    ELSE IF f.m = 0 THEN 0 - 127
    ELSE f.e + 23

FiddleExp2(n) == F32(1, n)

EXP_BIAS == 10
MIN_EXP == 0 - EXP_BIAS
MAX_EXP == 31 - EXP_BIAS

IntMax(x, y) == IF x >= y THEN x ELSE y
IntMin(x, y) == IF x <= y THEN x ELSE y

\* A u32 is kept as its two 16-bit halves.
Word(hi, lo) == [hi |-> hi, lo |-> lo]

\* Variant of the packing that shifts x by 22 bits.
PackWordNarrow(x, y, z, e) ==
    Word(x * Pow2(6) + (y \div 4), (y % 4) * Pow2(14) + z * Pow2(5) + e)

\* (x << 23) | (y << 14) | (z << 5) | e for 9-bit x, y, z and 5-bit e.
PackWord(x, y, z, e) ==
    Word(x * Pow2(7) + (y \div 4), (y % 4) * Pow2(14) + z * Pow2(5) + e)

\* Variant of a mantissa without the cap at 511.
MantissaUncapped(v, inv_multiplier) ==
    LET t == F32MulPow2(v, inv_multiplier)
    IN  IF t.neg /\ ~F32IsZero(t) THEN 0
        ELSE F32AsU32(F32AddHalf(t)) % Pow2(9)

\* One mantissa of encode: (v * inv_multiplier + 0.5).min(511.0) as u32,
\* masked to 9 bits.  A negative product gives a sum below 1, which the
\* cast takes to 0.
Mantissa(v, inv_multiplier) ==
    LET t == F32MulPow2(v, inv_multiplier)
    IN  IF t.neg /\ ~F32IsZero(t) THEN 0
        ELSE F32AsU32(F32Min(F32AddHalf(t), F32(511, 0))) % Pow2(9)

\* Variant of the guard that looks at the first two floats only.
EncodeGuardFirstTwo(bld, floats) ==
    bld = "debug" =>
        /\ F32Le(F32Zero, floats[1]) /\ F32Le(F32Zero, floats[2])
        /\ floats[1].cls # "nan" /\ floats[2].cls # "nan"

\* The debug_assert! opening encode: all three floats >= 0.0 and none NaN.
EncodeGuard(bld, floats) ==
    bld = "debug" =>
        /\ F32Le(F32Zero, floats[1]) /\ F32Le(F32Zero, floats[2])
        /\ F32Le(F32Zero, floats[3])
        /\ floats[1].cls # "nan" /\ floats[2].cls # "nan" /\ floats[3].cls # "nan"

\* The shared exponent: one above the largest value's, clamped, and raised
\* once more when rounding would take the largest mantissa to 512.
SharedExponent(largest_value) ==
    LET exponent == IntMin(IntMax(FiddleLog2(largest_value) + 1, MIN_EXP), MAX_EXP)
        inv_multiplier == FiddleExp2(0 - exponent + 9)
    IN  IF F32Le(F32(512, 0), F32AddHalf(F32MulPow2(largest_value, inv_multiplier)))
        THEN IntMin(exponent + 1, MAX_EXP)
        ELSE exponent

\* The body of encode after its guard.
Encode(floats) ==
    LET largest_value == F32Max(floats[1], F32Max(floats[2], floats[3]))
    IN  IF F32Le(largest_value, F32Zero) THEN Word(0, 0)
        ELSE
        LET exponent == SharedExponent(largest_value)
            inv_multiplier == FiddleExp2(0 - exponent + 9)
            x == Mantissa(floats[1], inv_multiplier)
            y == Mantissa(floats[2], inv_multiplier)
            z == Mantissa(floats[3], inv_multiplier)
            e == (exponent + EXP_BIAS) % Pow2(5)
        IN  PackWord(x, y, z, e)

\* Variant of decode that leaves the second mantissa unmasked.
DecodeUnmasked(w) ==
    LET x == w.hi \div Pow2(7)
        y == w.hi * 4 + (w.lo \div Pow2(14))
        z == (w.lo \div Pow2(5)) % Pow2(9)
        e == w.lo % Pow2(5)
        multiplier == FiddleExp2(e - EXP_BIAS - 9)
    IN  <<F32MulPow2(F32(x, 0), multiplier),
          F32MulPow2(F32(y, 0), multiplier),
          F32MulPow2(F32(z, 0), multiplier)>>

\* decode(trifloat): the four fields and the three products.
Decode(w) ==
    LET x == w.hi \div Pow2(7)
        y == ((w.hi % Pow2(7)) * 4 + (w.lo \div Pow2(14))) % Pow2(9)
        z == (w.lo \div Pow2(5)) % Pow2(9)
        e == w.lo % Pow2(5)
        multiplier == FiddleExp2(e - EXP_BIAS - 9)
    IN  <<F32MulPow2(F32(x, 0), multiplier),
          F32MulPow2(F32(y, 0), multiplier),
          F32MulPow2(F32(z, 0), multiplier)>>

\* encode(floats): aborts when the guard fails and returns a word otherwise.
EncodeCall ==
    /\ op = "encode" /\ pc = "call"
    /\ IF EncodeGuard(build, arg.floats)
       THEN /\ outcome' = [status |-> "returned", word |-> Encode(arg.floats)]
            /\ pc' = "done"
       ELSE outcome' = Panicked /\ pc' = "panic"
    /\ UNCHANGED <<fn, build, op, arg, algoVars, codeVars, extVars>>

\* decode(word) on a word handed in.
DecodeCall ==
    /\ op = "decode" /\ pc = "call"
    /\ outcome' = [status |-> "returned", word |-> arg.word,
                   floats |-> Decode(arg.word)]
    /\ pc' = "decoded"
    /\ UNCHANGED <<fn, build, op, arg, algoVars, codeVars, extVars>>

\* decode(encode(floats)): the second half of a round trip.
RoundTripDecode ==
    /\ op = "encode" /\ pc = "done"
    /\ outcome' = [status |-> "returned", word |-> outcome.word,
                   floats |-> Decode(outcome.word)]
    /\ pc' = "decoded"
    /\ UNCHANGED <<fn, build, op, arg, algoVars, codeVars, extVars>>

\* pub const MAX = 2^21 - 4096 and pub const MIN = 2^-19.
MAX == F32(511, 12)
MIN == F32(1, 0 - 19)

\* Inputs of the guard: a negative, the two zeros, a positive and a NaN.
EncodeGrid == {F32Neg(F32(1, 0)), F32NegZero, F32Zero, F32(1, 0), F32NaN}

\* Inputs of the round trips.  Integers and 1 + k/256 as the largest
\* component, the triples of the crate's tests, and a grid of triples
\* around the bottom, the middle and the top of the range.
MaxInteger == 512
MaxFraction == 255
MaxSig == 3

IntegerInputs == {<<F32(n, 0), F32Zero, F32Zero>> : n \in 0..MaxInteger}
FractionInputs == {<<F32(256 + k, 0 - 8), F32Zero, F32Zero>> : k \in 0..MaxFraction}

Big == F32(9765625, 10)
TestInputs ==
    { <<F32Zero, F32Zero, F32Zero>>,
      <<F32(8, 0), F32(128, 0), F32(1, 0 - 1)>>,
      <<F32(7, 0), F32(513, 0), F32(1, 0)>>,
      <<F32(1023, 0), F32Zero, F32Zero>>,
      <<Big, Big, Big>>,
      <<F32Inf, F32Zero, F32Zero>>,
      <<Big, F32(4096, 0), F32(262144, 0)>>,
      <<MIN, F32(1, 0 - 20), F32(16441672, 0 - 44)>>,
      <<F32(16441672, 0 - 44), F32Zero, F32Zero>> }

GridExps == {0 - 21, 0 - 20, 0 - 19, 0 - 2, 0, 7, 8, 12, 20}
EdgeVals ==
    { F32Zero, F32(16441672, 0 - 44), F32(Two24 - 1, 0 - 44),
      F32(Two24 - 1, 0 - 25), F32(1023, 0 - 1), F32(1023, 0),
      MAX, F32(16744449, 0 - 3), Big, F32Inf }
TriVals == EdgeVals \cup {F32(m, e) : m \in 1..MaxSig, e \in GridExps}
TailVals == {F32Zero, F32(Two24 - 1, 0 - 25), F32(1, 0), MAX}
GridInputs == TriVals \X TriVals \X TailVals

\* Words handed to decode: every exponent field with small low mantissas,
\* and the edges of each half.
MaxLow == 63
HighHalves == {0, 1, 3, 127, 128, 129, 32768, 65408, 65535}
LowHalves == (0..MaxLow) \cup {16383, 16384, 16416, 49152, 65504, 65535}
WordGrid == {Word(h, l) : h \in HighHalves, l \in LowHalves}

InitTrifloat ==
    /\ fn = "none" /\ pc = "call"
    /\ build \in {"debug", "release"}
    /\ outcome = [status |-> "none"]
    /\ \/ /\ op = "encode"
          /\ arg \in [floats : IntegerInputs \cup FractionInputs
                               \cup TestInputs \cup GridInputs]
       \/ /\ op = "decode"
          /\ arg \in [word : WordGrid]
    /\ AlgoIdle /\ CodeIdle /\ ExtIdle

NextTrifloat == EncodeCall \/ RoundTripDecode \/ DecodeCall

SpecTrifloat == InitTrifloat /\ [][NextTrifloat]_vars

InitNum ==
    /\ fn = "none" /\ pc = "call"
    /\ build \in {"debug", "release"}
    /\ outcome = [status |-> "none"]
    /\ \/ /\ op = "GTRClosure::new"
          /\ arg \in [fresnel : HalfGrid, roughness : RoughnessGrid, tail_shape : TailGrid]
       \/ /\ op = "estimate_eval_over_solid_angle"
          /\ arg \in [kind : {"EmitClosure", "LambertClosure", "GTRClosure"},
                      cos_theta : HalfGrid, dot : HalfGrid]
       \/ /\ op = "encode"
          /\ arg \in [floats : EncodeGrid \X EncodeGrid \X EncodeGrid]
    /\ AlgoIdle /\ CodeIdle /\ ExtIdle

NextNum == GTRNew \/ EstimateEvalCall \/ EncodeCall

SpecNum == InitNum /\ [][NextNum]_vars

(* ------------------ TriangleMesh::intersect_rays ----------------------- *)
\* accel_rays is the batch, each AccelRay a record [id, max_t, occlusion,
\* done]; isects is indexed by ray id (0-based in the code, so slot id + 1
\* here); rs is the subset of positions handed to the running leaf
\* callback and ri the position of its loop in rs; tested logs every
\* triangle test, with t = 0 for a miss.
MaxT == 2
MaxVisits == 2

TVals == 1..MaxT
TriIndices == {0, 3}
RayIds == {<<1, 0>>, <<0, 1>>}

Miss == [kind |-> "Miss", t |-> 0, tri |-> 0]
Occlude == [kind |-> "Occlude", t |-> 0, tri |-> 0]
Hit(t, tri) == [kind |-> "Hit", t |-> t, tri |-> tri]

RECURSIVE Ascending(_)
Ascending(S) ==
    IF S = {} THEN <<>>
    ELSE LET least == CHOOSE x \in S : \A y \in S : x <= y
         IN  <<least>> \o Ascending(S \ {least})

\* Variant of the ray update that drops the comparison with max_t.
HitRayNoCompare(r, t) ==
    IF t # 0
    THEN IF r.occlusion THEN [r EXCEPT !.done = TRUE] ELSE [r EXCEPT !.max_t = t]
    ELSE r

\* Variant of the ray update that leaves an occluded ray live.
HitRayNoMarkDone(r, t) ==
    IF t # 0 /\ t < r.max_t
    THEN IF r.occlusion THEN r ELSE [r EXCEPT !.max_t = t]
    ELSE r

\* What the callback does to ray r on the result t of
\* triangle::intersect_ray (0 for None): mark_done for an occlusion ray,
\* max_t = t for another, both only when t < r.max_t.
HitRay(r, t) ==
    IF t # 0 /\ t < r.max_t
    THEN IF r.occlusion THEN [r EXCEPT !.done = TRUE] ELSE [r EXCEPT !.max_t = t]
    ELSE r

\* What it leaves in the ray's slot of isects.
HitIsect(r, t, tri, old) ==
    IF t # 0 /\ t < r.max_t
    THEN IF r.occlusion THEN Occlude ELSE Hit(t, tri)
    ELSE old

\* Variant of the slot that takes the ray's position in the batch.
IsectSlotByPosition(pos, r) == pos

\* isects[r.id as usize]
IsectSlot(pos, r) == r.id + 1

\* traverse reaches a leaf and calls the callback with the leaf's triangle
\* and a subset of the rays that are not done.
TraverseLeaf ==
    /\ fn = "intersect_rays" /\ pc = "traverse"
    /\ visits < MaxVisits
    /\ \E live \in SUBSET {i \in 1..Len(accel_rays) : ~accel_rays[i].done} :
          /\ live # {}
          /\ rs' = Ascending(live)
    /\ \E tri \in TriIndices : tri_i' = tri
    /\ ri' = 1
    /\ visits' = visits + 1
    /\ pc' = "leaf"
    /\ UNCHANGED <<fn, accel_rays, isects, tested, algoVars, codeVars, numVars, mergeVars>>

\* One turn of the callback's loop over rs.
LeafRay ==
    /\ fn = "intersect_rays" /\ pc = "leaf"
    /\ ri <= Len(rs)
    /\ \E t \in {0} \cup TVals :
          LET pos == rs[ri]
              r == accel_rays[pos]
              slot == IsectSlot(pos, r)
          IN  /\ isects' = [isects EXCEPT ![slot] = HitIsect(r, t, tri_i, isects[slot])]
              /\ accel_rays' = [accel_rays EXCEPT ![pos] = HitRay(r, t)]
              /\ tested' = Append(tested, [ray |-> pos, tri |-> tri_i, t |-> t,
                                           max_t |-> r.max_t])
    /\ ri' = ri + 1
    /\ UNCHANGED <<fn, pc, rs, tri_i, visits, algoVars, codeVars, numVars, mergeVars>>

\* The callback returns to traverse.
LeafReturn ==
    /\ fn = "intersect_rays" /\ pc = "leaf"
    /\ ri > Len(rs)
    /\ pc' = "traverse"
    /\ UNCHANGED <<fn, meshVars, algoVars, codeVars, numVars, mergeVars>>

\* traverse returns to intersect_rays.
TraverseReturn ==
    /\ fn = "intersect_rays" /\ pc = "traverse"
    /\ pc' = "done"
    /\ UNCHANGED <<fn, meshVars, algoVars, codeVars, numVars, mergeVars>>

InitMesh ==
    /\ fn = "intersect_rays" /\ pc = "traverse"
    /\ \E ids \in RayIds :
          accel_rays \in [1..2 -> [id : 0..1, max_t : {MaxT, MaxT + 1},
                                   occlusion : BOOLEAN, done : {FALSE}]]
          /\ \A i \in 1..2 : accel_rays[i].id = ids[i]
          /\ accel_rays[1].max_t = MaxT + 1 /\ accel_rays[2].max_t = MaxT
    /\ isects = <<Miss, Miss>>
    /\ rs = <<>> /\ ri = 0 /\ tri_i = 0 /\ tested = <<>> /\ visits = 0
    /\ AlgoIdle /\ CodeIdle /\ NumIdle /\ MergeIdle

NextMesh == TraverseLeaf \/ LeafRay \/ LeafReturn \/ TraverseReturn

SpecMesh == InitMesh /\ [][NextMesh]_vars

(* ---------------------- merge_slices_append ---------------------------- *)
\* Elements are records: Elem(v) is a value handed in, LerpSlice(s, i, n)
\* stands for lerp_slice(s, i as f32 / n as f32), and Merge(x1, x2) for what
\* the merge closure returns on (x1, x2).  vec_in keeps vec_out as it was at
\* the call; mi counts the loop's turns.
MaxMergeLen == 3

Elem(v) == [v |-> v]
LerpSlice(s, i, n) == [lerp |-> s, num |-> i, den |-> n]
Merge(x1, x2) == [m1 |-> x1, m2 |-> x2]

MergeSlices == UNION {[1..n -> {Elem(v) : v \in Vals}] : n \in 0..MaxMergeLen}

\* Variant of the pushed element that hands the interpolated element to
\* merge first whichever slice it comes from.
MergedAtLerpFirst(i) ==
    IF Len(slice1) = Len(slice2) THEN Merge(slice1[i + 1], slice2[i + 1])
    ELSE IF Len(slice1) > Len(slice2)
         THEN Merge(LerpSlice(slice2, i, Len(slice1) - 1), slice1[i + 1])
         ELSE Merge(LerpSlice(slice1, i, Len(slice2) - 1), slice2[i + 1])

\* The element pushed in turn i (0-based) of whichever loop runs.
MergedAt(i) ==
    IF Len(slice1) = Len(slice2) THEN Merge(slice1[i + 1], slice2[i + 1])
    ELSE IF Len(slice1) > Len(slice2)
         THEN Merge(slice1[i + 1], LerpSlice(slice2, i, Len(slice1) - 1))
         ELSE Merge(LerpSlice(slice1, i, Len(slice2) - 1), slice2[i + 1])

\* The number of turns of the loop: the length of the iterated slice.
MergeTurns == IF Len(slice1) >= Len(slice2) THEN Len(slice1) ELSE Len(slice2)

\* Entry: an empty slice1 or slice2 returns at once.
MergeEnter ==
    /\ fn = "merge_slices_append" /\ pc = "call"
    /\ pc' = IF Len(slice1) = 0 \/ Len(slice2) = 0 THEN "done" ELSE "loop"
    /\ UNCHANGED <<fn, mergeVars, meshVars, algoVars, codeVars, numVars>>

\* One turn: vec_out.push(merge(..)).
MergePush ==
    /\ fn = "merge_slices_append" /\ pc = "loop"
    /\ mi < MergeTurns
    /\ vec_out' = Append(vec_out, MergedAt(mi))
    /\ mi' = mi + 1
    /\ UNCHANGED <<fn, pc, slice1, slice2, vec_in, meshVars, algoVars, codeVars, numVars>>

\* The loop has run out.
MergeReturn ==
    /\ fn = "merge_slices_append" /\ pc = "loop"
    /\ mi >= MergeTurns
    /\ pc' = "done"
    /\ UNCHANGED <<fn, mergeVars, meshVars, algoVars, codeVars, numVars>>

InitMerge ==
    /\ fn = "merge_slices_append" /\ pc = "call"
    /\ slice1 \in MergeSlices /\ slice2 \in MergeSlices
    /\ vec_out \in {<<>>} \cup {<<Elem(v)>> : v \in Vals}
    /\ vec_in = vec_out
    /\ mi = 0
    /\ AlgoIdle /\ CodeIdle /\ NumIdle /\ MeshIdle

NextMerge == MergeEnter \/ MergePush \/ MergeReturn

SpecMerge == InitMerge /\ [][NextMerge]_vars

(* ======================= claims: algorithm.rs ========================== *)
\* The results the predicate gave for the element with identity id.
PartResults(id) == {calls[k].res : k \in {n \in 1..Len(calls) : calls[n].e = id}}
PairResults(id) == {calls[k].res : k \in {n \in 1..Len(calls) : calls[n].e1 = id}}

\* How many times the predicate was evaluated on the element with identity id.
PartCount(id)  == Cardinality({k \in 1..Len(calls) : calls[k].e = id})
PairCount1(id) == Cardinality({k \in 1..Len(calls) : calls[k].e1 = id})
PairCount2(id) == Cardinality({k \in 1..Len(calls) : calls[k].e2 = id})

\* 0-based position of the first element whose predicate result was false
\* (the length when there is none).
FirstFalse(s, Results(_)) ==
    LET F == {i \in 1..Len(s) : FALSE \in Results(s[i].id)} IN
    IF F = {} THEN Len(s)
    ELSE (CHOOSE i \in F : \A j \in F : i <= j) - 1

\* Whether some element is no longer at the position it started at.
Moved(s) == \E i \in 1..Len(s) : s[i].id # i - 1

\* C1: when partition has returned k, every element before position k
\* tested true, every element at position k or later tested false, and k
\* is the position of the first element that tested false (the length when
\* there is none).
C1_PartitionSplit ==
    (fn = "partition" /\ pc = "done") =>
        /\ ret \in 0..Len(slc)
        /\ \A i \in 1..Len(slc) :
             PartResults(slc[i].id) = (IF i <= ret THEN {TRUE} ELSE {FALSE})
        /\ ret = FirstFalse(slc, PartResults)

C1_Witness ==
    /\ fn = "partition" /\ pc = "done"
    /\ Len(slc) >= 3
    /\ ret > 0 /\ ret < Len(slc)
    /\ Moved(slc)

\* C2: in partition and in partition_pair no element (pair) is ever tested
\* twice, and when the call has returned every element (pair) of the input
\* has been tested exactly once.
C2_PredOncePerElement ==
    /\ fn = "partition" =>
         \A id \in 0..(Len(slc) - 1) :
            /\ PartCount(id) <= 1
            /\ pc = "done" => PartCount(id) = 1
    /\ fn = "partition_pair" =>
         \A id \in 0..(Len(slc1) - 1) :
            /\ PairCount1(id) <= 1 /\ PairCount2(id) <= 1
            /\ pc = "done" => (PairCount1(id) = 1 /\ PairCount2(id) = 1)
    /\ pc = "done" =>
         Len(calls) = (IF fn = "partition" THEN Len(slc) ELSE Len(slc1))

\* a returned call in which the scans met after a swap and a retreat of b
C2_Witness ==
    /\ fn = "partition" /\ pc = "done"
    /\ Len(slc) >= 3
    /\ Moved(slc)
    /\ calls[Len(calls)].scan = "bwd"
    /\ \E k \in 1..Len(calls) : calls[k].scan = "fwd" /\ calls[k].res

\* C3: partition_pair keeps the slices in lockstep: at every moment the
\* elements that started at position i of A and of B share one position.
C3_PairLockstep ==
    (fn = "partition_pair" /\ Len(slc1) = Len(slc2)) =>
        /\ pc # "panic"
        /\ \A j \in 1..Len(slc1) : slc1[j].id = slc2[j].id
        /\ \A i \in 0..(Len(slc1) - 1) : \E j \in 1..Len(slc1) : slc1[j].id = i

C3_Witness ==
    /\ fn = "partition_pair" /\ pc = "done"
    /\ Len(slc1) >= 3
    /\ Moved(slc1) /\ Moved(slc2)

\* C4: when partition_pair has returned k, every pair before position k
\* tested true, every pair at position k or later tested false, and k is
\* the position of the first pair that tested false.
C4_PairSplit ==
    (fn = "partition_pair" /\ pc = "done") =>
        /\ ret \in 0..Len(slc1)
        /\ \A i \in 1..Len(slc1) :
             PairResults(slc1[i].id) = (IF i <= ret THEN {TRUE} ELSE {FALSE})
        /\ ret = FirstFalse(slc1, PairResults)

C4_Witness ==
    /\ fn = "partition_pair" /\ pc = "done"
    /\ Len(slc1) >= 3
    /\ ret > 0 /\ ret < Len(slc1)
    /\ Moved(slc1)

\* C5: every evaluation of partition_pair's predicate is handed the slot
\* index of the scanning pointer that made it (a1 in the forward scan, the
\* decremented b1 in the backward scan) together with the two elements
\* stored at that slot at that moment.
C5_PairIndexIsSlot ==
    [][(fn = "partition_pair" /\ calls' # calls) =>
          LET c == calls'[Len(calls')] IN
          /\ c.idx + 1 \in DOMAIN slc1
          /\ c.idx + 1 \in DOMAIN slc2
          /\ slc1[c.idx + 1].id = c.e1
          /\ slc2[c.idx + 1].id = c.e2
          /\ c.scan = "fwd" => a1 = start + c.idx * sizeA /\ a2 = base2 + c.idx * sizeB
          /\ c.scan = "bwd" => b1' = start + c.idx * sizeA /\ b2' = base2 + c.idx * sizeB
      ]_vars

\* a forward test made after a backward test and its swap
C5_Witness ==
    /\ fn = "partition_pair"
    /\ \E k \in 1..Len(calls) : \E l \in 1..Len(calls) :
          /\ k < l
          /\ calls[k].scan = "bwd" /\ calls[k].res
          /\ calls[l].scan = "fwd" /\ calls[l].idx > 0

\* C6: partition_pair on slices of different lengths panics, and has then
\* evaluated the predicate on nothing and moved or changed no element.
C6_PairLengthPanic ==
    fn = "partition_pair" =>
        /\ (Len(slc1) # Len(slc2) /\ pc # "call") => pc = "panic"
        /\ pc = "panic" =>
             /\ calls = <<>>
             /\ slc1 = FreshSlice(Len(slc1))
             /\ slc2 = FreshSlice(Len(slc2))
             /\ ret = -1

C6_Witness ==
    /\ fn = "partition_pair" /\ pc = "panic"
    /\ Len(slc1) # Len(slc2)
    /\ Len(slc1) > 0 /\ Len(slc2) > 0

\* Both pointers inside the slice or one past its end, a not after b.
PartInRange ==
    (fn = "partition" /\ pc # "call") =>
        /\ pc # "ub"
        /\ start <= a /\ a <= b /\ b <= start + Len(slc) * sizeT
        /\ (a - start) % sizeT = 0 /\ (b - start) % sizeT = 0
        /\ pc = "done" => ret \in 0..Len(slc)
        /\ (pc = "done" /\ Len(slc) = 0) => (ret = 0 /\ calls = <<>>)

\* C7: partition on a slice of any length returns: its pointers never leave
\* the slice, the returned index is in 0..len, and on the empty slice it
\* returns 0 without evaluating the predicate.
C7_PartitionTerminates == []PartInRange /\ <>(pc = "done")

C7_Witness ==
    /\ fn = "partition" /\ pc = "done"
    /\ Len(slc) = 0 /\ ret = 0 /\ calls = <<>>


(* ========================= claims: bvh_order =========================== *)
\* The code the encoding prescribes for a split, and the range of its
\* topology.
CodeRange(split) ==
    CASE split[1] = "Full"    -> 0..26
      [] split[1] = "Left"    -> 27..35
      [] split[1] = "Right"   -> 36..44
      [] split[1] = "TopOnly" -> 45..47

Base3Code(split) ==
    CASE split[1] = "Full"    -> split[2] + 3 * split[3] + 9 * split[4]
      [] split[1] = "Left"    -> split[2] + 3 * split[3] + 27
      [] split[1] = "Right"   -> split[2] + 3 * split[3] + 36
      [] split[1] = "TopOnly" -> split[2] + 45

\* C8: calc_traversal_code gives the base-3 code offset per topology, each
\* inside its topology's range and below 48, and two different inputs never
\* get the same code.
C8_TraversalCodeEncoding ==
    fn = "calc_traversal_code" =>
        /\ \A i \in 1..2 : codes[i] # -1 =>
             /\ codes[i] = Base3Code(splits[i])
             /\ codes[i] \in CodeRange(splits[i])
             /\ codes[i] < 48
        /\ (codes[1] # -1 /\ codes[2] # -1 /\ splits[1] # splits[2]) =>
             codes[1] # codes[2]
        /\ (codes[1] # -1 /\ codes[2] # -1 /\ splits[1][1] # splits[2][1]) =>
             CodeRange(splits[1]) \cap CodeRange(splits[2]) = {}

C8_Witness ==
    /\ fn = "calc_traversal_code" /\ pc = "done"
    /\ splits[1] = <<"Right", 2, 2>> /\ codes[1] = 44
    /\ splits[2] = <<"Left", 2, 2>> /\ codes[2] = 35


(* ==================== claims: numeric entry points ===================== *)
InUnitRange(x) == Fge(x, Num(0 - Unit)) /\ Fle(x, Num(Unit))

\* C9: estimate_eval_over_solid_angle returns a non-negative estimate for
\* every closure variant and every cos_theta in [-1, 1]; no variant fails to
\* return a value.
C9_EstimateReturnsNonNegative ==
    (op = "estimate_eval_over_solid_angle" /\ pc # "call" /\ InUnitRange(arg.cos_theta)) =>
        /\ pc = "done"
        /\ outcome.status = "returned"
        /\ ~outcome.nan
        /\ outcome.sign >= 0

\* Whether the call's input breaks the range its guard states.
FresnelOutOfRange == ~(Fge(arg.fresnel, Num(0)) /\ Fle(arg.fresnel, Num(Unit)))
EncodeInputBad ==
    \E i \in 1..3 : arg.floats[i].cls = "nan" \/ F32Lt(arg.floats[i], F32Zero)
CosThetaOutOfRange == ~InUnitRange(arg.cos_theta)
GuardedEstimate ==
    /\ op = "estimate_eval_over_solid_angle"
    /\ arg.kind \in {"LambertClosure", "GTRClosure"}

\* C10 as stated: every range guard is debug-only: an out-of-range fresnel,
\* trifloat input or cos_theta aborts the call in a debug build and never
\* in a release build.
C10_AllGuardsDebugOnly ==
    (pc # "call" /\ \/ (op = "GTRClosure::new" /\ FresnelOutOfRange)
                    \/ (op = "encode" /\ EncodeInputBad)
                    \/ (GuardedEstimate /\ CosThetaOutOfRange)) =>
        /\ build = "release" => pc # "panic"
        /\ build = "debug" => pc = "panic"

\* C10 as amended: the GTR fresnel guard and the trifloat input guard abort
\* exactly in debug builds on out-of-range input; the cos_theta guards of
\* the Lambert and GTR estimates abort on out-of-range input in debug and in
\* release builds alike.
C10_GuardsByBuild ==
    pc # "call" =>
        /\ op = "GTRClosure::new" =>
             (pc = "panic" <=> (build = "debug" /\ FresnelOutOfRange))
        /\ op = "encode" =>
             (pc = "panic" <=> (build = "debug" /\ EncodeInputBad))
        /\ GuardedEstimate => (pc = "panic" <=> CosThetaOutOfRange)

C10_Witness ==
    /\ build = "release" /\ pc = "panic"
    /\ op = "estimate_eval_over_solid_angle"
    /\ arg.kind = "LambertClosure"
    /\ arg.cos_theta = Num(0 - Unit - (Unit \div 2))


(* ======================= claims: trifloat unsigned32 =================== *)
RoundTripped == op = "encode" /\ pc = "decoded"

\* The number k of a non-negative finite f that is k * 2^s with k <= 1023,
\* and -1 for any other f.
StepsOf(f, s) ==
    IF f.cls # "num" \/ (f.neg /\ f.m # 0) THEN 0 - 1
    ELSE IF f.m = 0 THEN 0
    ELSE IF f.e + 23 > s + 9 THEN 0 - 1
    ELSE IF f.e >= s THEN f.m * Pow2(f.e - s)
    ELSE IF f.e < s - 24 THEN 0 - 1
    ELSE IF f.m % Pow2(s - f.e) = 0 THEN f.m \div Pow2(s - f.e)
    ELSE 0 - 1

\* The largest component is an integer of 0..512, or 1 + k/256.
IntegerLargest(floats) ==
    /\ F32IsZero(floats[2]) /\ F32IsZero(floats[3])
    /\ StepsOf(floats[1], 0) \in 0..MaxInteger
FractionLargest(floats) ==
    /\ F32IsZero(floats[2]) /\ F32IsZero(floats[3])
    /\ StepsOf(floats[1], 0 - 8) \in 256..(256 + MaxFraction)

\* A power of two, and the window of powers of two that one shared
\* exponent holds exactly: at most 8 binades below the largest one, and
\* not below 2^-19.
IsPow2(f) == f.cls = "num" /\ ~f.neg /\ f.m = Two23
InOneWindow(floats) ==
    LET top == FiddleLog2(F32Max(floats[1], F32Max(floats[2], floats[3])))
    IN  /\ top <= MAX_EXP - 1
        /\ \A i \in 1..3 :
              /\ IsPow2(floats[i])
              /\ FiddleLog2(floats[i]) >= IntMax(top - 8, MIN_EXP - 9)

\* C11: a round trip through encode and decode is exact for the largest
\* component when it is an integer of 0..512 or 1 + k/256 with k in 0..255,
\* and exact in all three components for powers of two sharing one
\* exponent window, such as (8, 128, 0.5).
C11_RoundTripExact ==
    RoundTripped =>
        /\ (IntegerLargest(arg.floats) \/ FractionLargest(arg.floats)) =>
              outcome.floats[1] = arg.floats[1]
        /\ InOneWindow(arg.floats) => outcome.floats = arg.floats

C11_Witness ==
    /\ RoundTripped
    /\ arg.floats = <<F32(8, 0), F32(128, 0), F32(1, 0 - 1)>>
    /\ outcome.floats = arg.floats

\* A value the top exponent holds exactly: a multiple of 4096 up to MAX.
TopRepresentable(f) == StepsOf(f, 12) \in 0..511

\* C12: every component above MAX, infinity included, decodes to exactly
\* MAX, the other components of the triple that the top exponent holds
\* exactly come back unchanged, and encode((inf, 0, 0)) is 0xFF80001F.
C12_Saturates ==
    RoundTripped =>
        /\ \A i \in 1..3 :
              F32Lt(MAX, arg.floats[i]) => outcome.floats[i] = MAX
        /\ (\E i \in 1..3 : F32Lt(MAX, arg.floats[i])) =>
              \A j \in 1..3 :
                  TopRepresentable(arg.floats[j]) => outcome.floats[j] = arg.floats[j]
        /\ arg.floats = <<F32Inf, F32Zero, F32Zero>> =>
              outcome.word = Word(65408, 31)

C12_Witness ==
    /\ RoundTripped
    /\ arg.floats = <<Big, F32(4096, 0), F32(262144, 0)>>
    /\ outcome.floats = <<MAX, F32(4096, 0), F32(262144, 0)>>

\* floor(f / 2^s + 1/2) in exact arithmetic, for a non-negative finite f
\* below 2^(s + 10).
RoundHalfUp(f, s) ==
    IF f.m = 0 THEN 0
    ELSE IF f.e >= s THEN f.m * Pow2(f.e - s)
    ELSE IF s - f.e > 25 THEN 0
    ELSE (f.m + Pow2(s - f.e - 1)) \div Pow2(s - f.e)

\* The exponent the claim gives a triple: one above the largest value's,
\* clamped, and one more when the largest mantissa would round to 512.
NearestExponent(floats) ==
    LET largest == F32Max(floats[1], F32Max(floats[2], floats[3]))
        first == IntMin(IntMax(FiddleLog2(largest) + 1, MIN_EXP), MAX_EXP)
    IN  IF largest.cls = "num" /\ FiddleLog2(largest) < first
           /\ RoundHalfUp(largest, first - 9) >= 512
        THEN IntMin(first + 1, MAX_EXP)
        ELSE first

\* C13: encode rounds to nearest with ties upward: with the shared
\* exponent e chosen from the largest component (raised by one when
\* rounding would push the largest mantissa to 512), each component not
\* above MAX decodes to floor(v / 2^(e-9) + 1/2) * 2^(e-9).
C13_RoundsToNearest ==
    (RoundTripped /\ ~F32IsZero(F32Max(arg.floats[1], F32Max(arg.floats[2], arg.floats[3])))) =>
        LET e == NearestExponent(arg.floats)
        IN  /\ outcome.word.lo % 32 = e + EXP_BIAS
            /\ \A i \in 1..3 :
                  F32Le(arg.floats[i], MAX) =>
                      outcome.floats[i] = F32(RoundHalfUp(arg.floats[i], e - 9), e - 9)

HalfMIN == F32(1, 0 - 20)

\* C14: at the bottom of the range the exponent is clamped to its minimum:
\* a component of at least MIN/2 and at most MIN comes back as MIN, a
\* component below MIN/2 comes back as 0, and a triple whose components
\* are all zero or all below MIN/2 encodes to the word 0.
C14_BottomOfRange ==
    RoundTripped =>
        /\ \A i \in 1..3 :
              /\ F32Lt(arg.floats[i], HalfMIN) => F32IsZero(outcome.floats[i])
              /\ (outcome.word.lo % 32 = 0
                    /\ F32Le(HalfMIN, arg.floats[i]) /\ F32Le(arg.floats[i], MIN)) =>
                     outcome.floats[i] = MIN
        /\ (\A i \in 1..3 : F32Lt(arg.floats[i], HalfMIN)) =>
              outcome.word = Word(0, 0)

\* C15: in a debug build encode aborts exactly when a component, in
\* whichever position, is NaN or negative; negative zero in any or all
\* positions is accepted.
C15_EncodeRejectsInDebug ==
    (op = "encode" /\ build = "debug" /\ pc # "call") =>
        /\ pc = "panic" <=>
              \E i \in 1..3 :
                  \/ arg.floats[i].cls = "nan"
                  \/ arg.floats[i].neg /\ ~F32IsZero(arg.floats[i])
        /\ (\A i \in 1..3 : F32IsZero(arg.floats[i])) => pc # "panic"

C15_Witness ==
    /\ op = "encode" /\ build = "debug" /\ pc = "panic"
    /\ arg.floats = <<F32NegZero, F32(1, 0), F32NaN>>

\* Bit i of a u32 kept in halves, and the field of `width` bits from bit
\* `from` upward.
WordBit(w, i) ==
    IF i >= 16 THEN (w.hi \div Pow2(i - 16)) % 2 ELSE (w.lo \div Pow2(i)) % 2
RECURSIVE FieldOf(_, _, _)
FieldOf(w, from, width) ==
    IF width = 0 THEN 0
    ELSE WordBit(w, from) + 2 * FieldOf(w, from + 1, width - 1)

\* C16: decode returns, for every word, the three 9-bit mantissa fields
\* times 2^(e - 19) with e the 5-bit exponent field, never fails, every
\* component it returns is 0 or lies between MIN and MAX, and
\* decode(0xFFFFFFFF) is (MAX, MAX, MAX).
C16_DecodeLossless ==
    /\ op = "decode" => pc \in {"call", "decoded"}
    /\ pc = "decoded" =>
          LET w == outcome.word
              scale == FieldOf(w, 0, 5) - 19
          IN  /\ outcome.floats = <<F32(FieldOf(w, 23, 9), scale),
                                    F32(FieldOf(w, 14, 9), scale),
                                    F32(FieldOf(w, 5, 9), scale)>>
              /\ \A i \in 1..3 :
                    \/ F32IsZero(outcome.floats[i])
                    \/ F32Le(MIN, outcome.floats[i]) /\ F32Le(outcome.floats[i], MAX)
              /\ w = Word(65535, 65535) => outcome.floats = <<MAX, MAX, MAX>>

C16_Witness ==
    /\ op = "decode" /\ pc = "decoded"
    /\ arg.word = Word(65535, 65535)
    /\ outcome.floats = <<MAX, MAX, MAX>>

(* ======================= claims: triangle_mesh.rs ====================== *)
\* The tests of the ray at position pos, oldest first, and the ray's max_t
\* when the callback first saw it.
TestsOf(pos) == SelectSeq(tested, LAMBDA e : e.ray = pos)
InitialMaxT(pos) ==
    IF TestsOf(pos) = <<>> THEN accel_rays[pos].max_t ELSE TestsOf(pos)[1].max_t

\* The hits of the ray at pos below its initial max_t, and the first test
\* among those with the smallest t.
HitsBelow(pos) ==
    SelectSeq(TestsOf(pos), LAMBDA e : e.t # 0 /\ e.t < InitialMaxT(pos))
NearestHit(pos) ==
    LET hs == HitsBelow(pos)
        k == CHOOSE i \in 1..Len(hs) :
                 /\ \A j \in 1..Len(hs) : hs[i].t <= hs[j].t
                 /\ \A j \in 1..(i - 1) : hs[j].t # hs[i].t
    IN  hs[k]

\* A step in which the callback tested one ray; LastTest is that test.
LeafStep == tested' # tested
LastTest == tested'[Len(tested')]

MaxTOnlyLowered ==
    \A pos \in 1..Len(accel_rays) :
        /\ accel_rays'[pos].max_t <= accel_rays[pos].max_t
        /\ accel_rays'[pos].max_t # accel_rays[pos].max_t =>
              /\ LeafStep /\ LastTest.ray = pos
              /\ ~accel_rays[pos].occlusion
              /\ LastTest.t # 0 /\ LastTest.t < accel_rays[pos].max_t
              /\ accel_rays'[pos].max_t = LastTest.t
              /\ isects'[accel_rays[pos].id + 1] = Hit(LastTest.t, LastTest.tri)
NoHitNoChange ==
    (LeafStep /\ (LastTest.t = 0 \/ LastTest.t >= accel_rays[LastTest.ray].max_t)) =>
        accel_rays' = accel_rays /\ isects' = isects
NearestHitRecorded ==
    \A pos \in 1..Len(accel_rays) :
        ~accel_rays[pos].occlusion =>
            IF HitsBelow(pos) = <<>>
            THEN /\ accel_rays[pos].max_t = InitialMaxT(pos)
                 /\ isects[accel_rays[pos].id + 1] = Miss
            ELSE /\ accel_rays[pos].max_t = NearestHit(pos).t
                 /\ isects[accel_rays[pos].id + 1] =
                        Hit(NearestHit(pos).t, NearestHit(pos).tri)

\* C17: in the leaf callback of intersect_rays a ray's max_t never
\* increases; a non-occlusion ray's max_t is lowered to t only on a hit at
\* t strictly below its current max_t, and isects[ray.id] is then the Hit
\* with that t; a miss or a hit at t >= max_t changes neither max_t nor
\* isects; so after all tested triangles the recorded hit is the smallest t
\* below the ray's initial max_t, the first tested among equal t.
C17_MaxTShrinksToNearest ==
    /\ [][MaxTOnlyLowered /\ NoHitNoChange]_vars
    /\ []NearestHitRecorded

C17_Witness ==
    /\ pc = "done" /\ Len(tested) >= 3
    /\ \E pos \in 1..Len(accel_rays) :
          /\ ~accel_rays[pos].occlusion
          /\ Len(HitsBelow(pos)) >= 2
          /\ HitsBelow(pos)[1].t = HitsBelow(pos)[2].t
          /\ HitsBelow(pos)[1].tri # HitsBelow(pos)[2].tri
          /\ isects[accel_rays[pos].id + 1] = Hit(HitsBelow(pos)[1].t, HitsBelow(pos)[1].tri)

\* C18: an occlusion ray hit at t < max_t gets isects[ray.id] = Occlude and
\* is marked done with its max_t unchanged; a non-occlusion ray is never
\* marked done by the callback; the callback writes isects only at the ids
\* of rays in the subset it was given.
C18_OcclusionFrame ==
    [][LeafStep =>
        /\ LET pos == LastTest.ray
               r == accel_rays[pos]
           IN  (r.occlusion /\ LastTest.t # 0 /\ LastTest.t < r.max_t) =>
                   /\ isects'[r.id + 1] = Occlude
                   /\ accel_rays'[pos].done
                   /\ accel_rays'[pos].max_t = r.max_t
        /\ \A pos \in 1..Len(accel_rays) :
              ~accel_rays[pos].occlusion => ~accel_rays'[pos].done
        /\ \A slot \in 1..Len(isects) :
              isects'[slot] # isects[slot] =>
                  \E k \in 1..Len(rs) : accel_rays[rs[k]].id + 1 = slot
    ]_vars

C18_Witness ==
    /\ fn = "intersect_rays" /\ pc = "leaf" /\ rs = <<1>> /\ ri = 2
    /\ accel_rays[1].occlusion /\ accel_rays[1].done /\ accel_rays[1].id = 1
    /\ isects = <<Miss, Occlude>>

MergedExpected(s1, s2) ==
    IF Len(s1) = 0 \/ Len(s2) = 0 THEN <<>>
    ELSE LET n == IF Len(s1) >= Len(s2) THEN Len(s1) ELSE Len(s2)
         IN  [k \in 1..n |->
                 Merge(IF Len(s1) = n THEN s1[k] ELSE LerpSlice(s1, k - 1, n - 1),
                       IF Len(s2) = n THEN s2[k] ELSE LerpSlice(s2, k - 1, n - 1))]

\* C20: merge_slices_append only appends to vec_out: the elements already
\* there keep their values and positions; with either input slice empty
\* nothing is appended; otherwise exactly max(len1, len2) elements are
\* appended in input order, the i-th the merge of the i-th element of the
\* longer slice with the matching or interpolated element of the other,
\* the slice1 element first.
C20_MergeOnlyAppends ==
    fn = "merge_slices_append" =>
        /\ Len(vec_out) >= Len(vec_in)
        /\ SubSeq(vec_out, 1, Len(vec_in)) = vec_in
        /\ SubSeq(vec_out, Len(vec_in) + 1, Len(vec_out))
              = SubSeq(MergedExpected(slice1, slice2), 1, mi)
        /\ pc = "done" => vec_out = vec_in \o MergedExpected(slice1, slice2)

C20_Witness ==
    /\ fn = "merge_slices_append" /\ pc = "done"
    /\ Len(vec_in) = 1 /\ Len(slice1) = 2 /\ Len(slice2) = 3
    /\ Len(vec_out) = 4
    /\ vec_out[3] = Merge(LerpSlice(slice1, 1, 2), slice2[2])

(* ================= claims: partition only rearranges =================== *)
\* The element a call record is about, per slice.
PartE(c) == c.e
PairE1(c) == c.e1
PairE2(c) == c.e2

\* The identities of s in slot order, and whether they are each original
\* position exactly once.
Ids(s) == [i \in 1..Len(s) |-> s[i].id]
IsPermutation(s) ==
    \A id \in 0..(Len(s) - 1) : Cardinality({i \in 1..Len(s) : s[i].id = id}) = 1

\* t is s with the whole elements of slots i and j exchanged.
Exchanged(s, t, i, j) ==
    /\ i \in 1..Len(s) /\ j \in 1..Len(s) /\ i # j
    /\ Len(t) = Len(s)
    /\ t[i] = s[j] /\ t[j] = s[i]
    /\ \A k \in 1..Len(s) : k \notin {i, j} => t[k] = s[k]

\* The element id was tested in the given scan with the given result.
TestedAs(id, E(_), scan, res) ==
    \E k \in 1..Len(calls) :
        E(calls[k]) = id /\ calls[k].scan = scan /\ calls[k].res = res

\* One step from slice s to slice t, with the forward pointer at slot i and
\* the backward pointer at slot j: elements change slots only by the
\* exchange of a tested-false element at i with a tested-true one at j, and
\* otherwise only the element the predicate was just run on may change.
RearrangesOnly(s, t, i, j, E(_)) ==
    /\ Ids(t) # Ids(s) =>
          /\ Exchanged(s, t, i, j)
          /\ calls' = calls
          /\ TestedAs(s[i].id, E, "fwd", FALSE)
          /\ TestedAs(s[j].id, E, "bwd", TRUE)
    /\ (Ids(t) = Ids(s) /\ t # s) =>
          /\ calls' # calls
          /\ \A k \in 1..Len(s) :
                t[k] # s[k] => s[k].id = E(calls'[Len(calls')])

\* Every element that tested true in the forward scan is at the slot it
\* started at.
FwdTrueStays(s, E(_)) ==
    \A k \in 1..Len(calls) :
        (calls[k].scan = "fwd" /\ calls[k].res) =>
            s[E(calls[k]) + 1].id = E(calls[k])

\* C21: partition and partition_pair only rearrange: the slice is always a
\* permutation of the elements as the predicate left them, elements change
\* slots only by a swap of an already-tested false element at the forward
\* pointer with an already-tested true element at the backward pointer,
\* and an element that tested true in the forward scan never moves.
C21_OnlyRearranges ==
    /\ [][/\ fn = "partition" =>
               RearrangesOnly(slc, slc', SlotOf(a, start, sizeT),
                              SlotOf(b, start, sizeT), PartE)
          /\ fn = "partition_pair" =>
               /\ RearrangesOnly(slc1, slc1', SlotOf(a1, start, sizeA),
                                 SlotOf(b1, start, sizeA), PairE1)
               /\ RearrangesOnly(slc2, slc2', SlotOf(a2, base2, sizeB),
                                 SlotOf(b2, base2, sizeB), PairE2)
        ]_vars
    /\ [](/\ fn = "partition" => IsPermutation(slc) /\ FwdTrueStays(slc, PartE)
          /\ fn = "partition_pair" =>
               /\ IsPermutation(slc1) /\ IsPermutation(slc2)
               /\ FwdTrueStays(slc1, PairE1) /\ FwdTrueStays(slc2, PairE2))

\* a returned call of partition_pair that swapped the first and the last of
\* three pairs, the moved elements keeping what the predicate wrote
C21_Witness ==
    /\ fn = "partition_pair" /\ pc = "done"
    /\ Ids(slc1) = <<2, 1, 0>> /\ Ids(slc2) = <<2, 1, 0>>
    /\ slc1[1].val = 1 /\ slc2[3].val = 1
    /\ \E k \in 1..Len(calls) : calls[k].scan = "fwd" /\ calls[k].res

(* ============== claims: partition_pair's index argument ================ *)
\* The identities of the elements of each slice that the predicate has been
\* run on, and the indices it has been handed, in order.
TestedFirst == {calls[k].e1 : k \in 1..Len(calls)}
TestedSecond == {calls[k].e2 : k \in 1..Len(calls)}
IndicesPassed == [k \in 1..Len(calls) |-> calls[k].idx]

\* Every slot whose element changes in this step held, and receives, an
\* element that has already been tested.
OnlyTestedExchanged(s, t, seen) ==
    \A i \in 1..Len(s) :
        t[i].id # s[i].id => (s[i].id \in seen /\ t[i].id \in seen)

\* C22: within one call of partition_pair the index handed to the predicate
\* for a pair is the position the pair had before the call: swaps exchange
\* only slots that have both been tested, so a pair not yet tested is still
\* at its original position, and when the call has returned every index
\* 0..n-1 has been handed to the predicate exactly once.
C22_IndexIsOriginalPosition ==
    /\ [][(fn = "partition_pair" /\ Len(slc1) = Len(slc2)) =>
            /\ OnlyTestedExchanged(slc1, slc1', TestedFirst)
            /\ OnlyTestedExchanged(slc2, slc2', TestedSecond)
        ]_vars
    /\ []((fn = "partition_pair" /\ Len(slc1) = Len(slc2)) =>
            /\ \A k \in 1..Len(calls) :
                  calls[k].idx = calls[k].e1 /\ calls[k].idx = calls[k].e2
            /\ \A k \in 1..Len(calls) : \A l \in 1..Len(calls) :
                  k # l => calls[k].idx # calls[l].idx
            /\ \A i \in 1..Len(slc1) :
                  /\ slc1[i].id \notin TestedFirst => slc1[i].id = i - 1
                  /\ slc2[i].id \notin TestedSecond => slc2[i].id = i - 1
            /\ pc = "done" =>
                  /\ Len(calls) = Len(slc1)
                  /\ {calls[k].idx : k \in 1..Len(calls)} = 0..(Len(slc1) - 1))

\* a returned call on three pairs: index 0 tested false, index 2 tested
\* true and swapped with it, index 1 tested last
C22_Witness ==
    /\ fn = "partition_pair" /\ pc = "done"
    /\ Len(slc1) = 3
    /\ IndicesPassed = <<0, 2, 1>>
    /\ Ids(slc1) = <<2, 1, 0>>

Spec == SpecAlgo

====
